---- MODULE Spec2Model ----
(***************************************************************************)
(* Model of rust-runner: the step-execution engine of src/executor.rs,     *)
(* the template renderer of src/template.rs and the run loop of            *)
(* src/main.rs.                                                            *)
(*                                                                         *)
(* Strings are sequences of symbols (Str): a symbol stands for a run of    *)
(* characters of one class (a word, one blank, a path separator, ...), so  *)
(* that splitting, concatenation and suffixing are computed as the code    *)
(* computes them.  Option<T> is <<>> (None) or <<v>> (Some(v)).            *)
(***************************************************************************)
EXTENDS Integers, Sequences, FiniteSets, TLC

VARIABLES
    steps,      \* doc.steps, the parsed step list (read-only)
    ctx,        \* Executor.ctx = doc.globals (read-only)
    ambient,    \* the process environment, std::env::vars() (read-only)
    dry_run,    \* Executor.dry_run
    idx,        \* main's loop index i (0-based, as in the code)
    pc,         \* where main is: "loop", "wait", "join", "exited"
    exit_code,  \* the exit code of the run, None until the process ends
    results,    \* the value run_step returned for each step started so far
    log,        \* everything done so far, in order: renders, merges, printed
                \* lines, spawns, filesystem calls
    fs,         \* the filesystem: files (path -> bytes), modes, directories
    alive,      \* step indices whose child process is spawned and not exited
    sc          \* the frame of the stream_child call in progress

vars == <<steps, ctx, ambient, dry_run, idx, pc, exit_code, results, log, fs, alive, sc>>

\* ------------------------------------------------------------------------
\* Option<T>
None == <<>>
Some(v) == <<v>>
IsSome(o) == o # <<>>
Unwrap(o) == o[1]

\* Result<(), anyhow::Error>: kind names the error, info the number it
\* carries (the step index of the dispatch error, the status of a failed
\* child).
OkResult == [tag |-> "Ok", kind |-> "", info |-> 0]
ErrResult(kind, info) == [tag |-> "Err", kind |-> kind, info |-> info]
PanicResult == [tag |-> "Panic", kind |-> "", info |-> 0]

\* One entry of the log: what was done, by which step, and two strings that
\* depend on the kind (a header's step name and rendered line, a file
\* operation's paths, a printed line's prefix and text).
Ev(kind, i, name, text) == [kind |-> kind, step |-> i, name |-> name, text |-> text]

\* Concatenation of a sequence of Str, with a separator between the items.
RECURSIVE JoinWith(_, _)
JoinWith(ss, sep) ==
    IF ss = <<>> THEN <<>>
    ELSE IF Len(ss) = 1 THEN ss[1]
    ELSE ss[1] \o sep \o JoinWith(Tail(ss), sep)

\* ------------------------------------------------------------------------
\* src/template.rs
\*
\* A template is a sequence of tokens: literal text, {{ name }}, {{ ENV.name }}
\* or a piece that does not parse.
Lit(s) == [t |-> "lit", v |-> s]
Var(n) == [t |-> "var", v |-> <<n>>]
EnvVar(n) == [t |-> "env", v |-> <<n>>]
SyntaxError == [t |-> "bad", v |-> <<>>]

\* serde_yaml::Value of doc.globals: Null when the document has no globals,
\* else a mapping of names to strings.
NullValue == [is_map |-> FALSE, map |-> <<>>]
Mapping(m) == [is_map |-> TRUE, map |-> m]

RenderOk(s) == [ok |-> TRUE, val |-> s]
RenderErr == [ok |-> FALSE, val |-> <<>>]

\* Renderer::render_str.  add_raw_template fails on a syntax error,
\* Context::from_value on a context that is no object, render on an
\* undefined variable.
RECURSIVE render_tokens(_, _, _)
render_tokens(s, c, env) ==
    IF s = <<>> THEN RenderOk(<<>>)
    ELSE LET tok == Head(s)
             rest == render_tokens(Tail(s), c, env)
             here == CASE tok.t = "lit" -> RenderOk(tok.v)
                       [] tok.t = "var" ->
                            IF tok.v[1] \in DOMAIN c.map
                            THEN RenderOk(c.map[tok.v[1]]) ELSE RenderErr
                       [] tok.t = "env" ->
                            IF tok.v[1] \in DOMAIN env
                            THEN RenderOk(env[tok.v[1]]) ELSE RenderErr
                       [] OTHER -> RenderErr
         IN  IF here.ok /\ rest.ok THEN RenderOk(here.val \o rest.val) ELSE RenderErr

render_str(s, c, env) ==
    IF \E i \in 1..Len(s) : s[i].t = "bad" THEN RenderErr
    ELSE IF ~c.is_map THEN RenderErr
    ELSE render_tokens(s, c, env)

\* render_map with the process environment as the map it inserts into.
render_map_onto_environ(map, c, env) ==
    IF \E k \in DOMAIN map : ~render_str(map[k], c, env).ok
    THEN [ok |-> FALSE, val |-> <<>>]
    ELSE [ok |-> TRUE,
          val |-> [k \in DOMAIN map \cup DOMAIN env |->
                     IF k \in DOMAIN map THEN render_str(map[k], c, env).val ELSE env[k]]]

\* Renderer::render_map: every value rendered, keys kept, the first error
\* returned.
render_map(map, c, env) ==
    IF \E k \in DOMAIN map : ~render_str(map[k], c, env).ok
    THEN [ok |-> FALSE, val |-> <<>>]
    ELSE [ok |-> TRUE, val |-> [k \in DOMAIN map |-> render_str(map[k], c, env).val]]

\* ------------------------------------------------------------------------
\* Character classes of the symbols.
IsWhitespace(sym) == sym \in {" ", "\t"}

\* shell_escape::escape (unix): a non-empty string of allowed characters is
\* returned as it is; anything else is wrapped in single quotes, with ' and !
\* written as '\'' and '\!'.
EscapeAllowed(sym) == sym \notin {" ", "\t", "'", "!", "$", ";", "@"}

RECURSIVE escape_quoted(_)
escape_quoted(s) ==
    IF s = <<>> THEN <<>>
    ELSE (CASE Head(s) = "'" -> <<"'\\''">>
            [] Head(s) = "!" -> <<"'\\!'">>
            [] OTHER -> <<Head(s)>>) \o escape_quoted(Tail(s))

escape(s) ==
    IF s # <<>> /\ \A i \in 1..Len(s) : EscapeAllowed(s[i]) THEN s
    ELSE <<"'">> \o escape_quoted(s) \o <<"'">>

\* str::split_whitespace: the maximal runs of non-blank symbols, in order.
RECURSIVE split_whitespace(_)
split_whitespace(s) ==
    IF s = <<>> THEN <<>>
    ELSE IF IsWhitespace(Head(s)) THEN split_whitespace(Tail(s))
    ELSE LET blanks == {i \in 1..Len(s) : IsWhitespace(s[i])}
             n == IF blanks = {} THEN Len(s) + 1
                  ELSE CHOOSE i \in blanks : \A j \in blanks : i <= j
         IN  <<SubSeq(s, 1, n - 1)>> \o split_whitespace(SubSeq(s, n, Len(s)))

\* ------------------------------------------------------------------------
\* src/executor.rs: Executor::merge_env
\*
\* HashMap::insert.
insert(env, k, v) == [x \in DOMAIN env \cup {k} |-> IF x = k THEN v ELSE env[x]]

\* One of the two loops of merge_env: every entry of map rendered and
\* inserted, the first rendering error returned.  The keys of a map are
\* distinct, so the order the HashMap yields them in does not change the
\* result.
RECURSIVE insert_rendered(_, _, _, _, _)
insert_rendered(env, map, todo, c, amb) ==
    IF todo = {} THEN [ok |-> TRUE, val |-> env]
    ELSE LET k == CHOOSE x \in todo : TRUE
             r == render_str(map[k], c, amb)
         IN  IF ~r.ok THEN [ok |-> FALSE, val |-> <<>>]
             ELSE insert_rendered(insert(env, k, r.val), map, todo \ {k}, c, amb)

\* merge_env with its two loops in the other order.
merge_env_step_last(step_env, local_env, c, amb) ==
    LET e1 == insert_rendered(amb, local_env, DOMAIN local_env, c, amb)
    IN  IF ~e1.ok THEN e1
        ELSE insert_rendered(e1.val, step_env, DOMAIN step_env, c, amb)

merge_env(step_env, local_env, c, amb) ==
    LET e1 == insert_rendered(amb, step_env, DOMAIN step_env, c, amb)
    IN  IF ~e1.ok THEN e1
        ELSE insert_rendered(e1.val, local_env, DOMAIN local_env, c, amb)

\* ------------------------------------------------------------------------
\* Executor::run_step, the dispatch: which branch a step takes.

\* The guard read the wrong way round: a step is skipped when its guard is
\* true.
when_true(step) == step.when = Some(TRUE)

\* if let Some(false) = step.when
when_false(step) == step.when = Some(FALSE)

\* The chain with its first two branches exchanged.
dispatch_exec_first(step) ==
    IF step.when = Some(FALSE) THEN "skip"
    ELSE IF IsSome(step.exec) THEN "exec"
    ELSE IF IsSome(step.shell) THEN "shell"
    ELSE IF IsSome(step.conf) THEN "conf"
    ELSE IF IsSome(step.ssh) THEN "ssh"
    ELSE "none"

\* The if / else-if chain of run_step.
dispatch(step) ==
    IF when_false(step) THEN "skip"
    ELSE IF IsSome(step.shell) THEN "shell"
    ELSE IF IsSome(step.exec) THEN "exec"
    ELSE IF IsSome(step.conf) THEN "conf"
    ELSE IF IsSome(step.ssh) THEN "ssh"
    ELSE "none"

\* What a handler has done when it returns or reaches its spawn: the entries
\* it added to the log, and either its result or the command to spawn.
Returned(evs, res) == [log |-> evs, res |-> res, spawn |-> None]
ToSpawn(evs, prg, args, env, cwd, prefix) ==
    [log |-> evs, res |-> OkResult,
     spawn |-> Some([prg |-> prg, args |-> args, env |-> env, cwd |-> cwd, prefix |-> prefix])]

\* print_header(idx, kind, rendered)
print_header(i, kind, rendered) == Ev("header", i, kind, rendered)

\* The handlers without their dry-run return.
preview_off(dry) == FALSE

\* if self.dry_run { return Ok(()) }: the handler stops before its spawn or
\* its first filesystem call.
preview_mode(dry) == dry

DefaultShell == <<"bash", " ", "-c">>
unwrap_or(o, d) == IF IsSome(o) THEN Unwrap(o) ELSE d

\* Executor::run_shell up to its spawn.
run_shell(step, spec, i, c, amb, dry) ==
    LET cmd_str == render_str(spec.command, c, amb)
        e1 == <<Ev("render", i, <<"command">>, <<>>)>>
        shell == unwrap_or(spec.shell, DefaultShell)
        parts == split_whitespace(shell)
        env == merge_env(step.env, spec.env, c, amb)
        e2 == e1 \o <<Ev("merge_env", i, <<>>, <<>>)>>
        e3 == e2 \o <<print_header(i, unwrap_or(step.name, <<"shell">>), cmd_str.val)>>
    IN  IF ~cmd_str.ok THEN Returned(e1, ErrResult("render", 0))
        ELSE IF parts = <<>> THEN Returned(e1, PanicResult)    \* parts.remove(0)
        ELSE IF ~env.ok THEN Returned(e2, ErrResult("render", 0))
        ELSE IF preview_mode(dry) THEN Returned(e3, OkResult)
        ELSE ToSpawn(e3, parts[1], Tail(parts) \o <<cmd_str.val>>, env.val,
                     unwrap_or(spec.cwd, <<".">>), "shell")

\* Rendering of every argument of an exec step, in order; the first error
\* ends it.
RECURSIVE render_args(_, _, _)
render_args(args, c, amb) ==
    IF args = <<>> THEN [ok |-> TRUE, val |-> <<>>, n |-> 0]
    ELSE LET a == render_str(Head(args), c, amb)
             rest == render_args(Tail(args), c, amb)
         IN  IF ~a.ok THEN [ok |-> FALSE, val |-> <<>>, n |-> 1]
             ELSE IF ~rest.ok THEN [ok |-> FALSE, val |-> <<>>, n |-> rest.n + 1]
             ELSE [ok |-> TRUE, val |-> <<a.val>> \o rest.val, n |-> rest.n + 1]

\* Executor::run_exec up to its spawn.
run_exec(step, spec, i, c, amb, dry) ==
    LET cmd == render_str(spec.cmd, c, amb)
        e1 == <<Ev("render", i, <<"cmd">>, <<>>)>>
        args == render_args(spec.args, c, amb)
        e2 == e1 \o [k \in 1..args.n |-> Ev("render", i, <<"arg">>, <<>>)]
        env == merge_env(step.env, spec.env, c, amb)
        e3 == e2 \o <<Ev("merge_env", i, <<>>, <<>>)>>
        line == cmd.val \o <<" ">> \o escape(JoinWith(args.val, <<" ">>))
        e4 == e3 \o <<print_header(i, unwrap_or(step.name, <<"exec">>), line)>>
    IN  IF ~cmd.ok THEN Returned(e1, ErrResult("render", 0))
        ELSE IF ~args.ok THEN Returned(e2, ErrResult("render", 0))
        ELSE IF ~env.ok THEN Returned(e3, ErrResult("render", 0))
        ELSE IF preview_mode(dry) THEN Returned(e4, OkResult)
        ELSE ToSpawn(e4, cmd.val, args.val, env.val, unwrap_or(spec.cwd, <<".">>), "exec")

\* ------------------------------------------------------------------------
\* The filesystem calls of run_conf (std::fs, std::path).  A filesystem is
\* [files |-> path -> [bytes, mode], dirs |-> set of paths].
exists(f, p) == p \in DOMAIN f.files \/ p \in f.dirs

FsOk(f) == [ok |-> TRUE, fs |-> f]
FsErr(f) == [ok |-> FALSE, fs |-> f]

\* Path::parent: None for the empty path and for the root, else the path
\* without its last component.
path_parent(p) ==
    LET q == IF Len(p) > 1 /\ p[Len(p)] = "/" THEN SubSeq(p, 1, Len(p) - 1) ELSE p
        seps == {i \in 1..Len(q) : q[i] = "/"}
        last == CHOOSE i \in seps : \A j \in seps : j <= i
    IN  IF q = <<>> \/ q = <<"/">> THEN None
        ELSE IF seps = {} THEN Some(<<>>)
        ELSE IF last = 1 THEN Some(<<"/">>)
        ELSE Some(SubSeq(q, 1, last - 1))

\* std::fs::copy(from, to): the bytes and the permission bits of from.
fs_copy(f, from, to) ==
    IF from \notin DOMAIN f.files \/ to \in f.dirs THEN FsErr(f)
    ELSE FsOk([f EXCEPT !.files = insert(f.files, to, f.files[from])])

\* std::fs::create_dir_all(p): p and its missing ancestors become
\* directories; a file in the way is an error.
RECURSIVE fs_create_dir_all(_, _)
fs_create_dir_all(f, p) ==
    IF p = <<>> \/ p \in f.dirs THEN FsOk(f)
    ELSE IF p \in DOMAIN f.files THEN FsErr(f)
    ELSE LET up == path_parent(p)
             above == IF IsSome(up) THEN fs_create_dir_all(f, Unwrap(up)) ELSE FsOk(f)
         IN  IF ~above.ok THEN FsErr(f)
             ELSE FsOk([above.fs EXCEPT !.dirs = @ \cup {p}])

\* The permission bits of a file created by std::fs::write (0666 less a
\* umask of 022).
DefaultMode == 420

\* std::fs::write(p, bytes): creates the file or replaces its bytes.
fs_write(f, p, bytes) ==
    IF p = <<>> \/ p \in f.dirs THEN FsErr(f)
    ELSE FsOk([f EXCEPT !.files = insert(f.files, p,
                 [bytes |-> bytes,
                  mode |-> IF p \in DOMAIN f.files THEN f.files[p].mode ELSE DefaultMode])])

\* A set_permissions that changes nothing.
fs_set_permissions_skipped(f, p, m) == FsOk(f)

\* std::fs::set_permissions(p, Permissions::from_mode(m)): chmod keeps the
\* low twelve bits.
fs_set_permissions(f, p, m) ==
    IF p \notin DOMAIN f.files THEN FsErr(f)
    ELSE FsOk([f EXCEPT !.files = insert(f.files, p, [bytes |-> f.files[p].bytes, mode |-> m % 4096])])

\* u32::from_str_radix(s, 8): an optional +, then one or more digits 0..7,
\* the value below 2^32.  A mode string is a sequence of characters.
OctDigits == <<"0", "1", "2", "3", "4", "5", "6", "7">>
OctVal(ch) == (CHOOSE d \in 1..8 : OctDigits[d] = ch) - 1

RECURSIVE oct_value(_, _)
oct_value(digits, acc) ==
    IF digits = <<>> THEN acc
    ELSE oct_value(Tail(digits), acc * 8 + OctVal(Head(digits)))

\* Leading zeros do not count towards the size of the number.
RECURSIVE strip_zeros(_)
strip_zeros(digits) ==
    IF Len(digits) > 1 /\ Head(digits) = "0" THEN strip_zeros(Tail(digits)) ELSE digits

\* 2^32 is 4 followed by ten zeros in octal.
overflows_u32(digits) ==
    LET d == strip_zeros(digits)
    IN  Len(d) > 11 \/ (Len(d) = 11 /\ OctVal(Head(d)) >= 4)

from_str_radix8(s) ==
    LET digits == IF s # <<>> /\ Head(s) = "+" THEN Tail(s) ELSE s
    IN  IF digits = <<>> \/ \E i \in 1..Len(digits) : \A d \in 1..8 : OctDigits[d] # digits[i]
        THEN None
        ELSE IF overflows_u32(digits) THEN None
        ELSE Some(oct_value(digits, 0))

FallbackMode == 420     \* 0o644

\* The I/O calls of run_conf the operating system may fail, besides the
\* failures the filesystem state itself decides.
IoFaults == {"none", "copy", "mkdir", "write", "chmod"}

\* The test without the backup flag.
backup_whenever_exists(spec, f, dest) == exists(f, dest)

\* if spec.backup && path.exists()
should_backup(spec, f, dest) == spec.backup /\ exists(f, dest)

\* The copy without the ? that returns its error.
copy_failure_ignored(do_backup, copied) == FALSE

\* std::fs::copy(&dest, &bak).context("backup copy")?
copy_failed(do_backup, copied) == do_backup /\ ~copied.ok

\* Executor::run_conf.  fault names the call the operating system fails.
run_conf(step, spec, i, c, amb, dry, f, fault) ==
    LET dest == render_str(spec.dest, c, amb)
        e1 == <<Ev("render", i, <<"dest">>, <<>>)>>
        content == render_str(spec.template, c, amb)
        e2 == e1 \o <<Ev("render", i, <<"template">>, <<>>)>>
        e3 == e2 \o <<print_header(i, unwrap_or(step.name, <<"conf">>), <<"write", " ">> \o dest.val)>>
        bak == dest.val \o <<".bak">>
        do_backup == should_backup(spec, f, dest.val)
        copied == IF fault = "copy" THEN FsErr(f) ELSE fs_copy(f, dest.val, bak)
        f1 == IF do_backup THEN copied.fs ELSE f
        e4 == IF do_backup
              THEN e3 \o <<Ev("fs_copy", i, dest.val, bak), Ev("print", i, <<"[conf] backup ->">>, bak)>>
              ELSE e3
        parent == path_parent(dest.val)
        made == IF fault = "mkdir" THEN FsErr(f1) ELSE fs_create_dir_all(f1, Unwrap(parent))
        f2 == IF IsSome(parent) THEN made.fs ELSE f1
        e5 == IF IsSome(parent) THEN e4 \o <<Ev("fs_create_dir_all", i, Unwrap(parent), <<>>)>> ELSE e4
        written == IF fault = "write" THEN FsErr(f2) ELSE fs_write(f2, dest.val, content.val)
        e6 == e5 \o <<Ev("fs_write", i, dest.val, content.val)>>
        m == unwrap_or(from_str_radix8(Unwrap(spec.mode)), FallbackMode)
        chmod == IF fault = "chmod" THEN FsErr(written.fs)
                 ELSE fs_set_permissions(written.fs, dest.val, m)
        e7 == e6 \o <<Ev("fs_set_permissions", i, dest.val, <<>>)>>
        done(evs, res, g) == [log |-> evs, res |-> res, spawn |-> None, fs |-> g]
    IN  IF ~dest.ok THEN done(e1, ErrResult("render", 0), f)
        ELSE IF ~content.ok THEN done(e2, ErrResult("render", 0), f)
        ELSE IF preview_mode(dry) THEN done(e3 \o <<Ev("print", i, <<"Content preview:">>, content.val)>>, OkResult, f)
        ELSE IF copy_failed(do_backup, copied) THEN done(e3, ErrResult("backup copy", 0), f)
        ELSE IF IsSome(parent) /\ ~made.ok THEN done(e4, ErrResult("io", 0), f1)
        ELSE IF ~written.ok THEN done(e5, ErrResult("io", 0), f2)
        ELSE IF IsSome(spec.mode) /\ ~chmod.ok THEN done(e6, ErrResult("io", 0), written.fs)
        ELSE IF IsSome(spec.mode) THEN done(e7, OkResult, chmod.fs)
        ELSE done(e6, OkResult, written.fs)

\* ------------------------------------------------------------------------
\* Executor::run_ssh up to its spawn.

\* The match without None in its first arm: an absent check_host adds nothing.
host_key_options_no_only(check_host) ==
    IF check_host = Some(<<"no">>)
    THEN << <<"-o">>, <<"StrictHostKeyChecking=no">>, <<"-o">>, <<"UserKnownHostsFile=/dev/null">> >>
    ELSE <<>>

\* The options the host-key policy adds (the match on spec.check_host).
host_key_options(check_host) ==
    IF check_host = None \/ check_host = Some(<<"no">>)
    THEN << <<"-o">>, <<"StrictHostKeyChecking=no">>, <<"-o">>, <<"UserKnownHostsFile=/dev/null">> >>
    ELSE <<>>

\* The test without its check of the kind.
uses_key_of_any_kind(spec) ==
    /\ IsSome(spec.auth)
    /\ IsSome(Unwrap(spec.auth).key_path)

\* if let Some(auth) = &spec.auth && auth.kind == "key" && let Some(k) = &auth.key_path
uses_key(spec) ==
    /\ IsSome(spec.auth)
    /\ Unwrap(spec.auth).kind = <<"key">>
    /\ IsSome(Unwrap(spec.auth).key_path)

\* The prefix without the blank that ends it.
env_export_no_blank(env, order) ==
    LET keys == SelectSeq(order, LAMBDA k : k \in DOMAIN env)
    IN  JoinWith([n \in 1..Len(keys) |-> <<keys[n], "=">> \o escape(env[keys[n]])], <<" ">>)

\* The inline export prefix: KEY=escaped-value for the entries of env in the
\* order the HashMap yields them, joined by blanks, and one more blank.
\* order is an order of all keys there are; the HashMap yields its own keys
\* in that order.
env_export(env, order) ==
    LET keys == SelectSeq(order, LAMBDA k : k \in DOMAIN env)
    IN  IF DOMAIN env = {} THEN <<>>
        ELSE JoinWith([n \in 1..Len(keys) |-> <<keys[n], "=">> \o escape(env[keys[n]])], <<" ">>)
             \o <<" ">>

\* The orders a HashMap with these keys may be iterated in.
Orders(keys) ==
    {o \in [1..Cardinality(keys) -> keys] : \A a, b \in 1..Cardinality(keys) : o[a] = o[b] => a = b}

run_ssh(step, spec, i, c, amb, dry, order) ==
    LET host == render_str(spec.host, c, amb)
        e1 == <<Ev("render", i, <<"host">>, <<>>)>>
        user == IF IsSome(spec.user) THEN render_str(Unwrap(spec.user), c, amb)
                ELSE RenderOk(<<"root">>)
        e2 == IF IsSome(spec.user) THEN e1 \o <<Ev("render", i, <<"user">>, <<>>)>> ELSE e1
        command == render_str(spec.command, c, amb)
        e3 == e2 \o <<Ev("render", i, <<"command">>, <<>>)>>
        env == render_map(spec.env, c, amb)
        e4 == e3 \o <<Ev("render_map", i, <<>>, <<>>)>>
        cmd1 == << <<"ssh">> >> \o host_key_options(spec.check_host)
        key == render_str(Unwrap(Unwrap(spec.auth).key_path), c, amb)
        e5 == IF uses_key(spec) THEN e4 \o <<Ev("render", i, <<"key_path">>, <<>>)>> ELSE e4
        cmd2 == IF uses_key(spec) THEN cmd1 \o << <<"-i">>, key.val >> ELSE cmd1
        cmd3 == Append(cmd2, user.val \o <<"@">> \o host.val)
        ssh_cmd == Append(cmd3, env_export(env.val, order) \o command.val)
        line == JoinWith(ssh_cmd, <<" ">>)
        e6 == e5 \o <<print_header(i, unwrap_or(step.name, <<"ssh">>), line)>>
    IN  IF ~host.ok THEN Returned(e1, ErrResult("render", 0))
        ELSE IF ~user.ok THEN Returned(e2, ErrResult("render", 0))
        ELSE IF ~command.ok THEN Returned(e3, ErrResult("render", 0))
        ELSE IF ~env.ok THEN Returned(e4, ErrResult("render", 0))
        ELSE IF uses_key(spec) /\ ~key.ok THEN Returned(e5, ErrResult("render", 0))
        ELSE IF preview_mode(dry) THEN Returned(e6, OkResult)
        ELSE ToSpawn(e6, ssh_cmd[1], Tail(ssh_cmd), amb, <<".">>, "ssh")

\* ------------------------------------------------------------------------
\* Executor::stream_child: the frame of the latest call.  The child writes
\* lines into two pipes of bounded capacity; out_task and err_task each read
\* one of them.  A line is [n, utf8]: the n-th line the child wrote to that
\* stream, valid UTF-8 or not.
NewStream == [pipe |-> <<>>,        \* lines written and not yet read
              written |-> <<>>,     \* every line the child wrote to the stream
              printed |-> <<>>,     \* every line the task printed
              task |-> "running"]   \* the reading task: "running" or "done"

NoFrame ==
    [active |-> FALSE,              \* the call has not returned
     child |-> 0 - 1,               \* the step the child belongs to
     cmd |-> None,                  \* the command spawned
     out |-> [NewStream EXCEPT !.task = "none"],
     err |-> [NewStream EXCEPT !.task = "none"],
     exit |-> None,                 \* the exit status, once the child has exited
     status |-> None]               \* what child.wait() returned

NewFrame(i, cmd) ==
    [NoFrame EXCEPT !.active = TRUE, !.child = i, !.cmd = Some(cmd),
                    !.out = NewStream, !.err = NewStream]

\* ------------------------------------------------------------------------
\* src/main.rs: the loop over doc.steps.

\* The loop without its std::process::exit(1): an error is printed and the
\* next step runs.
StepReturnsAndGoesOn(evs, res) ==
    /\ results' = Append(results, res)
    /\ log' = log \o evs \o (IF res.tag = "Err" THEN <<Ev("error", idx, <<>>, <<>>)>> ELSE <<>>)
    /\ idx' = idx + 1
    /\ pc' = "loop"
    /\ exit_code' = exit_code

\* Step i has returned res: Ok goes on to step i + 1, an error is printed
\* and ends the process with code 1, a panic ends it with code 101.
StepReturns(evs, res) ==
    /\ results' = Append(results, res)
    /\ log' = log \o evs \o (IF res.tag = "Err" THEN <<Ev("error", idx, <<>>, <<>>)>> ELSE <<>>)
    /\ idx' = IF res.tag = "Ok" THEN idx + 1 ELSE idx
    /\ pc' = IF res.tag = "Ok" THEN "loop" ELSE "exited"
    /\ exit_code' = IF res.tag = "Ok" THEN exit_code
                    ELSE IF res.tag = "Err" THEN Some(1) ELSE Some(101)

\* A handler that spawns its child and returns Ok at once, without
\* stream_child.
SpawnDetached(p) ==
    \E started \in BOOLEAN :
        IF started
        THEN /\ StepReturns(p.log \o <<Ev("spawn", idx, Unwrap(p.spawn).prg, <<>>)>>, OkResult)
             /\ alive' = alive \cup {idx}
             /\ sc' = NewFrame(idx, Unwrap(p.spawn))
        ELSE /\ StepReturns(p.log, ErrResult("spawn", 0))
             /\ UNCHANGED <<alive, sc>>

\* A handler has reached Command::spawn: the operating system starts the
\* child, or fails to (the ? on spawn returns the error).
Spawn(p) ==
    \E started \in BOOLEAN :
        IF started
        THEN /\ log' = log \o p.log \o <<Ev("spawn", idx, Unwrap(p.spawn).prg, <<>>)>>
             /\ alive' = alive \cup {idx}
             /\ sc' = NewFrame(idx, Unwrap(p.spawn))
             /\ pc' = "wait"
             /\ UNCHANGED <<idx, exit_code, results>>
        ELSE /\ StepReturns(p.log, ErrResult("spawn", 0))
             /\ UNCHANGED <<alive, sc>>

AtStep(kind) == pc = "loop" /\ idx < Len(steps) /\ dispatch(steps[idx + 1]) = kind

Inputs == <<steps, ctx, ambient, dry_run>>

\* run_step on a step whose guard is false.
Skip ==
    /\ AtStep("skip")
    /\ StepReturns(<<>>, OkResult)
    /\ UNCHANGED <<Inputs, fs, alive, sc>>

\* run_step on a step with no operation: anyhow::bail!.
Unrunnable ==
    /\ AtStep("none")
    /\ StepReturns(<<>>, ErrResult("unrunnable", idx))
    /\ UNCHANGED <<Inputs, fs, alive, sc>>

RunShell ==
    /\ AtStep("shell")
    /\ LET step == steps[idx + 1]
           p == run_shell(step, Unwrap(step.shell), idx, ctx, ambient, dry_run)
       IN  IF IsSome(p.spawn) THEN Spawn(p)
           ELSE StepReturns(p.log, p.res) /\ UNCHANGED <<alive, sc>>
    /\ UNCHANGED <<Inputs, fs>>

RunExec ==
    /\ AtStep("exec")
    /\ LET step == steps[idx + 1]
           p == run_exec(step, Unwrap(step.exec), idx, ctx, ambient, dry_run)
       IN  IF IsSome(p.spawn) THEN Spawn(p)
           ELSE StepReturns(p.log, p.res) /\ UNCHANGED <<alive, sc>>
    /\ UNCHANGED <<Inputs, fs>>

RunConf ==
    /\ AtStep("conf")
    /\ \E fault \in IoFaults :
         LET step == steps[idx + 1]
             p == run_conf(step, Unwrap(step.conf), idx, ctx, ambient, dry_run, fs, fault)
         IN  StepReturns(p.log, p.res) /\ fs' = p.fs
    /\ UNCHANGED <<Inputs, alive, sc>>

RunSsh ==
    /\ AtStep("ssh")
    /\ LET step == steps[idx + 1]
       IN  \E order \in Orders(DOMAIN ambient \cup DOMAIN step.env \cup DOMAIN Unwrap(step.ssh).env) :
             LET p == run_ssh(step, Unwrap(step.ssh), idx, ctx, ambient, dry_run, order)
             IN  IF IsSome(p.spawn) THEN Spawn(p)
                 ELSE StepReturns(p.log, p.res) /\ UNCHANGED <<alive, sc>>
    /\ UNCHANGED <<Inputs, fs>>

\* main returns Ok(()) after the last step.
MainReturns ==
    /\ pc = "loop" /\ idx = Len(steps)
    /\ pc' = "exited"
    /\ exit_code' = Some(0)
    /\ UNCHANGED <<Inputs, idx, results, log, fs, alive, sc>>

\* ------------------------------------------------------------------------
\* The child process and the two reading tasks of stream_child.
MaxLines == 3       \* lines a child writes to one stream, at most
PipeCap == 2        \* lines a pipe holds before a write blocks
ExitStatuses == {0, 1}

\* The child writes its next line to a stream.
write_line(st, utf8) ==
    LET line == [n |-> Len(st.written) + 1, utf8 |-> utf8]
    IN  [st EXCEPT !.pipe = Append(@, line), !.written = Append(@, line)]

\* The write goes through while the pipe has room and its read end is open.
can_write(st) == st.task = "running" /\ Len(st.pipe) < PipeCap /\ Len(st.written) < MaxLines

ChildWritesOut ==
    /\ sc.active /\ sc.child \in alive /\ can_write(sc.out)
    /\ \E utf8 \in BOOLEAN : sc' = [sc EXCEPT !.out = write_line(sc.out, utf8)]
    /\ UNCHANGED <<Inputs, idx, pc, exit_code, results, log, fs, alive>>

ChildWritesErr ==
    /\ sc.active /\ sc.child \in alive /\ can_write(sc.err)
    /\ \E utf8 \in BOOLEAN : sc' = [sc EXCEPT !.err = write_line(sc.err, utf8)]
    /\ UNCHANGED <<Inputs, idx, pc, exit_code, results, log, fs, alive>>

\* A child exits: its ends of the pipes close.
ChildExits ==
    \E p \in alive, status \in ExitStatuses :
        /\ alive' = alive \ {p}
        /\ sc' = IF sc.child = p THEN [sc EXCEPT !.exit = Some(status)] ELSE sc
        /\ UNCHANGED <<Inputs, idx, pc, exit_code, results, log, fs>>

\* A child that writes MaxLines lines to each stream, in any interleaving,
\* and exits after its last write.  A write to a pipe whose reading end is
\* closed fails at once (EPIPE) and ends that stream for the child.
stream_finished(st) == Len(st.written) = MaxLines \/ st.task = "done"

ChildFinishes ==
    /\ sc.active /\ sc.child \in alive
    /\ stream_finished(sc.out) /\ stream_finished(sc.err)
    /\ \E status \in ExitStatuses :
         /\ alive' = alive \ {sc.child}
         /\ sc' = [sc EXCEPT !.exit = Some(status)]
    /\ UNCHANGED <<Inputs, idx, pc, exit_code, results, log, fs>>

\* One turn of `while let Ok(Some(line)) = reader.next_line().await`:
\* a line is printed; a line that is not UTF-8 is an Err and end-of-stream
\* is Ok(None), and both end the task.
next_line_ready(st, closed) == st.task = "running" /\ (st.pipe # <<>> \/ closed)

next_line(st) ==
    IF st.pipe = <<>> THEN [st EXCEPT !.task = "done"]
    ELSE IF Head(st.pipe).utf8
         THEN [st EXCEPT !.pipe = Tail(@), !.printed = Append(@, Head(st.pipe))]
         ELSE [st EXCEPT !.pipe = Tail(@), !.task = "done"]

OutTask ==
    /\ sc.active /\ next_line_ready(sc.out, IsSome(sc.exit))
    /\ sc' = [sc EXCEPT !.out = next_line(sc.out)]
    /\ UNCHANGED <<Inputs, idx, pc, exit_code, results, log, fs, alive>>

\* The streams read one after the other: stderr only once stdout has
\* reached its end.
ErrTaskAfterOut ==
    /\ sc.active /\ sc.out.task = "done" /\ next_line_ready(sc.err, IsSome(sc.exit))
    /\ sc' = [sc EXCEPT !.err = next_line(sc.err)]
    /\ UNCHANGED <<Inputs, idx, pc, exit_code, results, log, fs, alive>>

ErrTask ==
    /\ sc.active /\ next_line_ready(sc.err, IsSome(sc.exit))
    /\ sc' = [sc EXCEPT !.err = next_line(sc.err)]
    /\ UNCHANGED <<Inputs, idx, pc, exit_code, results, log, fs, alive>>

\* let status = child.wait().await?
Wait ==
    /\ pc = "wait" /\ IsSome(sc.exit)
    /\ sc' = [sc EXCEPT !.status = sc.exit]
    /\ pc' = "join"
    /\ UNCHANGED <<Inputs, idx, exit_code, results, log, fs, alive>>

\* stream_child without its check of the status.
status_ignored(status) == OkResult

\* tokio::join!(out_task, err_task), then the status decides the result.
status_result(status) ==
    IF status = 0 THEN OkResult ELSE ErrResult("exit", status)

\* A join that awaits out_task only.
joined_out_only(frame) == frame.out.task = "done"

\* let _ = tokio::join!(out_task, err_task): both tasks have finished.
joined(frame) == frame.out.task = "done" /\ frame.err.task = "done"

Join ==
    /\ pc = "join" /\ joined(sc)
    /\ StepReturns(<<>>, status_result(Unwrap(sc.status)))
    /\ sc' = [sc EXCEPT !.active = FALSE]
    /\ UNCHANGED <<Inputs, fs, alive>>

\* ------------------------------------------------------------------------
\* The documents, contexts, environments and filesystems of the checks.
MaxSteps == 2       \* steps of a document, at most

Globals == {NullValue, Mapping([name |-> <<"hi">>])}
Environ == [HOME |-> <<"/root">>, LANG |-> <<"C">>]

EchoName == <<Lit(<<"echo", " ">>), Var("name")>>      \* echo {{ name }}
EchoUndefined == <<Lit(<<"echo", " ">>), Var("nope")>> \* echo {{ nope }}

AShell == [command |-> EchoName, env |-> <<>>, cwd |-> None, shell |-> None]
AnExec == [cmd |-> <<Lit(<<"ls">>)>>, args |-> << <<Lit(<<"-l">>)>>, <<Var("name")>> >>,
           env |-> <<>>, cwd |-> None]
AConf == [dest |-> <<Lit(<<"/", "etc", "/", "app.conf">>)>>,
          template |-> <<Lit(<<"key", "=">>), Var("name")>>,
          backup |-> TRUE, mode |-> Some(<<"6", "0", "0">>)]
AnSsh == [host |-> <<Lit(<<"h1">>)>>, user |-> None, auth |-> None,
          command |-> EchoName, env |-> <<>>, check_host |-> None]

StepOf(when, shell, exec, conf, ssh) ==
    [name |-> None, when |-> when, timeout |-> None, retry |-> None, env |-> <<>>,
     exec |-> exec, shell |-> shell, ssh |-> ssh, conf |-> conf]

\* A filesystem with the destination of AConf present, and one without it.
RootOnly == [files |-> <<>>, dirs |-> {<<"/">>}]
WithAppConf ==
    [files |-> (<<"/", "etc", "/", "app.conf">> :> [bytes |-> <<"old">>, mode |-> 420]),
     dirs |-> {<<"/">>, <<"/", "etc">>}]

\* The steps of the documents of Spec: each kind alone, no operation, all
\* four at once, a false guard, a template that does not render, a shell
\* string of blanks.
RunSteps ==
    { StepOf(None, Some(AShell), None, None, None),
      StepOf(Some(TRUE), None, Some(AnExec), None, None),
      StepOf(None, None, None, Some(AConf), None),
      StepOf(None, None, None, None, Some(AnSsh)),
      StepOf(None, None, None, None, None),
      StepOf(None, Some(AShell), Some(AnExec), Some(AConf), Some(AnSsh)),
      StepOf(Some(FALSE), Some(AShell), None, Some(AConf), None),
      StepOf(Some(FALSE), None, None, None, None),
      StepOf(None, Some([AShell EXCEPT !.command = EchoUndefined]), None, None, None),
      StepOf(None, Some([AShell EXCEPT !.shell = Some(<<" ">>)]), None, None, None) }

SeqsUpTo(S, n) == UNION {[1..k -> S] : k \in 0..n}

Start ==
    /\ idx = 0 /\ pc = "loop" /\ exit_code = None
    /\ results = <<>> /\ log = <<>>
    /\ alive = {} /\ sc = NoFrame

Init ==
    /\ steps \in SeqsUpTo(RunSteps, MaxSteps)
    /\ ctx \in Globals
    /\ ambient = Environ
    /\ dry_run \in BOOLEAN
    /\ fs = WithAppConf
    /\ Start

\* Documents of several steps, run with children that print nothing: what
\* the children print is left to SpecStep.
Next ==
    \/ Skip \/ Unrunnable \/ RunShell \/ RunExec \/ RunConf \/ RunSsh
    \/ ChildExits \/ OutTask \/ ErrTask \/ Wait \/ Join
    \/ MainReturns

Spec == Init /\ [][Next]_vars

\* Documents of one step, of every shape, run with children that print.
ShellSpecs ==
    { AShell, [AShell EXCEPT !.command = EchoUndefined], [AShell EXCEPT !.shell = Some(<<" ">>)] }

AnyStep ==
    { StepOf(when, shell, exec, conf, ssh) :
        when \in {None, Some(TRUE), Some(FALSE)},
        shell \in {None} \cup {Some(x) : x \in ShellSpecs},
        exec \in {None, Some(AnExec)},
        conf \in {None, Some(AConf)},
        ssh \in {None, Some(AnSsh)} }

InitStep ==
    /\ steps \in {<<st>> : st \in AnyStep}
    /\ ctx \in Globals
    /\ ambient = Environ
    /\ dry_run \in BOOLEAN
    /\ fs = WithAppConf
    /\ Start

NextStep == Next \/ ChildWritesOut \/ ChildWritesErr

SpecStep == InitStep /\ [][NextStep]_vars

\* One shell or exec step whose child writes all its lines before it exits,
\* with the tasks, the wait and the join scheduled fairly and the child
\* running whenever it is not blocked.
InitLive ==
    /\ steps \in {<<StepOf(None, Some(AShell), None, None, None)>>,
                  <<StepOf(None, None, Some(AnExec), None, None)>>}
    /\ ctx = Mapping([name |-> <<"hi">>])
    /\ ambient = Environ
    /\ dry_run = FALSE
    /\ fs = RootOnly
    /\ Start

NextLive ==
    \/ RunShell \/ RunExec
    \/ ChildWritesOut \/ ChildWritesErr \/ ChildFinishes
    \/ OutTask \/ ErrTask \/ Wait \/ Join
    \/ MainReturns

SpecLive ==
    /\ InitLive /\ [][NextLive]_vars
    /\ WF_vars(ChildWritesOut) /\ WF_vars(ChildWritesErr) /\ WF_vars(ChildFinishes)
    /\ WF_vars(OutTask) /\ WF_vars(ErrTask)
    /\ WF_vars(Wait) /\ WF_vars(Join)

\* Mappings from some of the keys to the values.
Maps(keys, vals) == UNION {[ks -> vals] : ks \in SUBSET keys}

\* Shell and exec steps with every layering of the environment: HOME is in
\* all three layers, LANG in the process environment only, A in none of it.
StepEnvs == Maps({"HOME", "A"}, {<<Lit(<<"step">>)>>, <<Var("name")>>})
OpEnvs == Maps({"HOME", "A"}, {<<Lit(<<"op">>)>>, <<EnvVar("LANG")>>, <<Var("nope")>>})

InitEnv ==
    /\ steps \in
         {<<[StepOf(None, Some([AShell EXCEPT !.env = o]), None, None, None) EXCEPT !.env = e]>> :
             e \in StepEnvs, o \in OpEnvs}
         \cup
         {<<[StepOf(None, None, Some([AnExec EXCEPT !.env = o]), None, None) EXCEPT !.env = e]>> :
             e \in StepEnvs, o \in OpEnvs}
    /\ ctx = Mapping([name |-> <<"hi">>])
    /\ ambient = Environ
    /\ dry_run = FALSE
    /\ fs = RootOnly
    /\ Start

NextEnv == RunShell \/ RunExec

SpecEnv == InitEnv /\ [][NextEnv]_vars

\* Ssh steps of every shape.
KeyAuth(path) == [kind |-> <<"key">>, password |-> None, key_path |-> path, passphrase |-> None]
PasswordAuth(path) ==
    [kind |-> <<"password">>, password |-> Some(<<Lit(<<"secret">>)>>), key_path |-> path,
     passphrase |-> None]
KeyPath == <<Lit(<<"/", "keys", "/">>), Var("name")>>

SshSpecs ==
    [host : {<<Lit(<<"h1">>)>>},
     user : {None, Some(<<Var("name")>>)},
     auth : {None, Some(KeyAuth(Some(KeyPath))), Some(KeyAuth(None)), Some(PasswordAuth(Some(KeyPath)))},
     command : {EchoName, <<Lit(<<"StrictHostKeyChecking=no">>)>>},
     env : Maps({"A", "B"}, {<<Lit(<<"x", " ", "y">>)>>, <<Var("name")>>}),
     check_host : {None, Some(<<"no">>), Some(<<"yes">>), Some(<<"fingerprint">>), Some(<<"No">>)}]

SshStepEnvs == {<<>>, [A |-> <<Lit(<<"step">>)>>]}

InitSsh ==
    /\ steps \in {<<[StepOf(None, None, None, None, Some(spec)) EXCEPT !.env = e]>> :
                     spec \in SshSpecs, e \in SshStepEnvs}
    /\ ctx = Mapping([name |-> <<"hi">>])
    /\ ambient = Environ
    /\ dry_run \in BOOLEAN
    /\ fs = RootOnly
    /\ Start

SpecSsh == InitSsh /\ [][RunSsh]_vars

\* Conf steps of every shape, over filesystems with and without the
\* destination and its backup.
AppConf == <<"/", "etc", "/", "app.conf">>

WithAppConfAndBak ==
    [WithAppConf EXCEPT !.files =
        insert(@, AppConf \o <<".bak">>, [bytes |-> <<"older">>, mode |-> 384])]
AppConfIsDir == [files |-> <<>>, dirs |-> {<<"/">>, <<"/", "etc">>, AppConf}]

BakIsDir == [WithAppConf EXCEPT !.dirs = @ \cup {AppConf \o <<".bak">>}]

\* Mode strings: 600, a word, the empty string, a signed number, a number
\* with a bit above the twelve of chmod, and 2^32.
ModeStrings ==
    { <<"6", "0", "0">>, <<"r", "w">>, <<>>, <<"+", "7", "5", "5">>, <<"0", "6", "8">>,
      <<"1", "0", "6", "0", "0">>,
      <<"4", "0", "0", "0", "0", "0", "0", "0", "0", "0", "0">> }

ConfSpecs ==
    [dest : {<<Lit(AppConf)>>, <<Lit(<<"out.conf">>)>>, <<Lit(<<"/", "etc", "/">>), Var("nope")>>},
     template : {<<Lit(<<"key", "=">>), Var("name")>>},
     backup : BOOLEAN,
     mode : {None} \cup {Some(mode) : mode \in ModeStrings}]

InitConf ==
    /\ steps \in {<<StepOf(None, None, None, Some(spec), None)>> : spec \in ConfSpecs}
    /\ ctx = Mapping([name |-> <<"hi">>])
    /\ ambient = Environ
    /\ dry_run \in BOOLEAN
    /\ fs \in {RootOnly, WithAppConf, WithAppConfAndBak, AppConfIsDir, BakIsDir}
    /\ Start

SpecConf == InitConf /\ [][RunConf]_vars

\* ------------------------------------------------------------------------
\* Properties.

\* C1: a step whose guard is false returns Ok and does nothing else,
\* whatever operations it carries: nothing is rendered, merged, printed,
\* spawned or written, and the loop goes on to the next step.
GuardFalseSkips ==
    [][ (pc = "loop" /\ idx < Len(steps) /\ steps[idx + 1].when = Some(FALSE))
        => /\ results' = Append(results, OkResult)
           /\ log' = log /\ fs' = fs /\ alive' = alive /\ sc' = sc
           /\ idx' = idx + 1 /\ pc' = "loop" /\ exit_code' = exit_code ]_vars

\* A step with a false guard and a shell operation was skipped, and the step
\* after it ran.
SkippedThenRan ==
    /\ Len(results) = 2
    /\ steps[1].when = Some(FALSE) /\ IsSome(steps[1].shell)
    /\ results[1] = OkResult
    /\ log # <<>> /\ \A n \in 1..Len(log) : log[n].step = 1

\* C2: steps are started in list order; once a step has failed nothing of a
\* later step happens and the run ends with a non-zero code; the run ends
\* with code 0 only if every step returned Ok.
FailFast ==
    /\ \A n \in 1..Len(log) : log[n].step <= idx
    /\ \A a, b \in 1..Len(log) : a < b => log[a].step <= log[b].step
    /\ alive \subseteq {idx}
    /\ Len(results) \in {idx, idx + 1}
    /\ \A k \in 1..Len(results) :
         results[k].tag # "Ok"
         => /\ k = Len(results) /\ idx = k - 1
            /\ pc = "exited" /\ IsSome(exit_code) /\ Unwrap(exit_code) # 0
    /\ exit_code = Some(0)
         => Len(results) = Len(steps) /\ \A k \in 1..Len(results) : results[k] = OkResult

\* The first of two steps failed and the run ended with code 1.
FailedWithAStepLeft ==
    /\ Len(steps) = 2 /\ Len(results) = 1
    /\ results[1].tag = "Err"
    /\ pc = "exited" /\ exit_code = Some(1)

\* C3: in preview mode no child is ever spawned and the filesystem is never
\* changed, whatever the steps are.
EffectKinds == {"spawn", "fs_copy", "fs_create_dir_all", "fs_write", "fs_set_permissions"}

PreviewHasNoEffects ==
    dry_run => /\ fs = WithAppConf
               /\ alive = {} /\ sc = NoFrame
               /\ \A n \in 1..Len(log) : log[n].kind \notin EffectKinds

\* In preview mode a conf step with a backup over an existing file, and a
\* step that would spawn, have both returned Ok.
PreviewedConfAndSpawn ==
    /\ dry_run /\ Len(results) = 2 /\ results[1] = OkResult /\ results[2] = OkResult
    /\ steps[1].when = None /\ steps[1].shell = None /\ steps[1].exec = None
    /\ IsSome(steps[1].conf) /\ Unwrap(steps[1].conf).backup
    /\ steps[2].when # Some(FALSE) /\ steps[2].shell = None /\ IsSome(steps[2].exec)

\* C4 (as claimed): a step whose guard is not false and that has no operation
\* or more than one fails with the dispatch error naming its index, and no
\* handler runs for it.
Populated(step) ==
    {k \in {"shell", "exec", "conf", "ssh"} :
        IsSome(CASE k = "shell" -> step.shell [] k = "exec" -> step.exec
                 [] k = "conf" -> step.conf [] OTHER -> step.ssh)}

UnrunnableUnlessExactlyOne ==
    \A k \in 1..Len(steps) :
        (steps[k].when # Some(FALSE) /\ Cardinality(Populated(steps[k])) # 1)
        => /\ \A n \in 1..Len(log) : log[n].step = k - 1 => log[n].kind = "error"
           /\ (k - 1) \notin alive
           /\ k <= Len(results) => results[k] = ErrResult("unrunnable", k - 1)

\* C13: for a step whose guard is not false at most one handler runs, and
\* it is the handler that the set of populated operations decides: shell if
\* shell is populated, else exec, else conf, else ssh, and none if none is.
\* A handler shows in the log by the first template it renders.
Marks(i, field) ==
    Cardinality({n \in 1..Len(log) :
                    log[n].step = i /\ log[n].kind = "render" /\ log[n].name = <<field>>})

HandlersEntered(i) ==
    {h \in {"shell", "exec", "conf", "ssh"} :
        CASE h = "shell" -> Marks(i, "command") > Marks(i, "host")
          [] h = "exec" -> Marks(i, "cmd") > 0
          [] h = "conf" -> Marks(i, "dest") > 0
          [] OTHER -> Marks(i, "host") > 0}

ChosenBy(populated) ==
    IF "shell" \in populated THEN {"shell"}
    ELSE IF "exec" \in populated THEN {"exec"}
    ELSE IF "conf" \in populated THEN {"conf"}
    ELSE IF "ssh" \in populated THEN {"ssh"}
    ELSE {}

OneHandlerByPopulated ==
    \A k \in 1..Len(steps) :
        /\ Cardinality(HandlersEntered(k - 1)) <= 1
        /\ \A f \in {"command", "cmd", "dest", "host"} : Marks(k - 1, f) <= 1
        /\ (steps[k].when # Some(FALSE) /\ (k <= Len(results) \/ (k - 1 = idx /\ pc # "loop")))
             => HandlersEntered(k - 1) = ChosenBy(Populated(steps[k]))

\* A step with exec, conf and ssh populated has run: the exec handler and
\* no other, the destination of the conf operation untouched.
ExecRanOfThree ==
    /\ Len(results) = 1 /\ results[1] = OkResult /\ ~dry_run
    /\ Populated(steps[1]) = {"exec", "conf", "ssh"}
    /\ HandlersEntered(0) = {"exec"}
    /\ fs = WithAppConf

\* C6: a step that spawned a child returns Ok exactly if the child's exit
\* status is zero, and otherwise the error that carries the status; a failed
\* spawn is returned before stream_child starts (no reading task, no line
\* printed for the step).
ExitStatusDecides ==
    \A k \in 1..Len(results) :
        LET spawned == \E n \in 1..Len(log) : log[n].kind = "spawn" /\ log[n].step = k - 1
        IN  /\ (spawned /\ sc.child = k - 1)
               => /\ sc.status = sc.exit /\ IsSome(sc.exit)
                  /\ results[k].tag = "Ok" <=> Unwrap(sc.exit) = 0
                  /\ Unwrap(sc.exit) # 0 => results[k] = ErrResult("exit", Unwrap(sc.exit))
            /\ results[k] = ErrResult("spawn", 0) => ~spawned /\ sc.child # k - 1

\* A child that printed a line and exited with status 1 has failed its step.
ChildFailedItsStep ==
    /\ Len(results) = 1 /\ results[1] = ErrResult("exit", 1)
    /\ sc.child = 0 /\ sc.exit = Some(1) /\ sc.out.printed # <<>>

\* C7 (as claimed): when stream_child has returned, the lines printed for
\* each stream are the lines the child wrote to it, in order, none lost or
\* duplicated, and both pipes have been read to their end.
StreamsFullyPrinted ==
    (sc.child >= 0 /\ ~sc.active)
    => /\ sc.out.printed = sc.out.written /\ sc.out.pipe = <<>>
       /\ sc.err.printed = sc.err.written /\ sc.err.pipe = <<>>

\* C11 (as claimed): the wait on the child's exit status begins only when
\* both reading tasks have reached the end of their streams.
WaitAfterConsumers ==
    (sc.active /\ pc = "wait") => (sc.out.task = "done" /\ sc.err.task = "done")

\* C11 (amended): the wait on the exit status runs while the tasks read, the
\* tasks are joined once it has returned, and stream_child returns its
\* result only when the status is known and both tasks have finished.
ResultAfterStatusAndConsumers ==
    /\ (sc.active /\ pc = "wait") => sc.status = None
    /\ pc = "join" => (sc.active /\ IsSome(sc.status) /\ sc.status = sc.exit)
    /\ (sc.child >= 0 /\ ~sc.active)
         => /\ IsSome(sc.status)
            /\ sc.out.task = "done" /\ sc.err.task = "done"
            /\ Len(results) > sc.child

\* child.wait() has returned the status while err_task still has a line to
\* read and out_task has printed one.
StatusKnownWhileReading ==
    /\ pc = "join" /\ sc.status = Some(0)
    /\ sc.err.task = "running" /\ sc.err.pipe # <<>>
    /\ sc.out.printed # <<>>

\* C12: a child that writes its lines to the two bounded pipes and then
\* exits is never blocked for ever on a full pipe, and stream_child returns:
\* the child has exited, its status is known and both tasks have finished.
DrainageTerminates ==
    sc.active ~> (/\ ~sc.active /\ alive = {} /\ IsSome(sc.status)
                  /\ sc.out.task = "done" /\ sc.err.task = "done")

\* The child is blocked on a full stderr pipe, with lines still to write,
\* while lines of stdout wait to be read.
ChildBlockedOnFullPipe ==
    /\ sc.active /\ sc.child \in alive
    /\ Len(sc.err.pipe) = PipeCap /\ Len(sc.err.written) < MaxLines
    /\ sc.err.task = "running" /\ sc.out.pipe # <<>>

\* C8: at most one child is alive at any time: when main is between two steps
\* no child is alive, and a living child is the child of the current step,
\* inside its stream_child call.
OneChildAtATime ==
    /\ Cardinality(alive) <= 1
    /\ pc = "loop" => alive = {}
    /\ \A p \in alive : p = idx /\ sc.active /\ sc.child = p

\* The second step's child is alive after the first step's child has come
\* and gone.
SecondChildAlive ==
    /\ idx = 1 /\ alive = {1} /\ results = <<OkResult>>
    /\ \E n \in 1..Len(log) : log[n].kind = "spawn" /\ log[n].step = 0

\* C5: the environment a shell or exec child gets maps each key to the
\* rendered operation-level value if the operation has the key, else to the
\* rendered step-level value if the step has it, else to the value of the
\* process environment; it has no other keys.
EnvLayering ==
    sc.active =>
        LET step == steps[sc.child + 1]
            op == IF IsSome(step.shell) THEN Unwrap(step.shell).env ELSE Unwrap(step.exec).env
            env == Unwrap(sc.cmd).env
        IN  /\ DOMAIN env = DOMAIN ambient \cup DOMAIN step.env \cup DOMAIN op
            /\ \A k \in DOMAIN env :
                 env[k] = IF k \in DOMAIN op THEN render_str(op[k], ctx, ambient).val
                          ELSE IF k \in DOMAIN step.env THEN render_str(step.env[k], ctx, ambient).val
                          ELSE ambient[k]

\* HOME is set in all three layers and the child gets the operation's value;
\* A is set by the step only; LANG comes from the process.
OperationValueWins ==
    /\ sc.active
    /\ ambient["HOME"] = <<"/root">>
    /\ "HOME" \in DOMAIN steps[1].env /\ steps[1].env["HOME"] = <<Lit(<<"step">>)>>
    /\ "A" \in DOMAIN steps[1].env /\ steps[1].env["A"] = <<Var("name")>>
    /\ IsSome(steps[1].shell) /\ DOMAIN Unwrap(steps[1].shell).env = {"HOME"}
    /\ Unwrap(sc.cmd).env = [HOME |-> <<"op">>, A |-> <<"hi">>, LANG |-> <<"C">>]

\* C9: with check_host "no" or absent the ssh argument vector has the two
\* options that switch host-key checking off, right after the program and
\* before the target; with any other check_host it has neither.
HostKeyOptions == << <<"-o">>, <<"StrictHostKeyChecking=no">>, <<"-o">>, <<"UserKnownHostsFile=/dev/null">> >>

HostKeyPolicy ==
    \A n \in 1..Len(log) :
        log[n].kind = "header" =>
            LET spec == Unwrap(steps[log[n].step + 1].ssh)
                off == spec.check_host = None \/ spec.check_host = Some(<<"no">>)
                line == log[n].text
                argv == <<Unwrap(sc.cmd).prg>> \o Unwrap(sc.cmd).args
                user == IF IsSome(spec.user) THEN render_str(Unwrap(spec.user), ctx, ambient).val
                        ELSE <<"root">>
                target == user \o <<"@">> \o render_str(spec.host, ctx, ambient).val
            IN  \* the line of the header, printed in preview mode too
                /\ off => /\ Len(line) >= 10
                          /\ SubSeq(line, 1, 10)
                               = JoinWith(<< <<"ssh">> >> \o HostKeyOptions, <<" ">>) \o <<" ">>
                /\ ~off => \A j \in 1..Len(line) :
                              line[j] \notin {"-o", "UserKnownHostsFile=/dev/null"}
                \* the vector the child is spawned with
                /\ sc.active =>
                     /\ line = JoinWith(argv, <<" ">>)
                     /\ off => /\ Len(argv) >= 6
                               /\ SubSeq(argv, 2, 5) = HostKeyOptions
                               /\ \E j \in 6..Len(argv) : argv[j] = target
                     /\ ~off => \A j \in 1..Len(argv) :
                                   /\ argv[j] \notin {<<"-o">>, <<"UserKnownHostsFile=/dev/null">>}
                                   /\ argv[j] = <<"StrictHostKeyChecking=no">> => j = Len(argv)

\* An ssh child was spawned with check_host absent and a key: the options,
\* the identity, the target, the command.
SpawnedWithOptionsAndKey ==
    /\ sc.active /\ Unwrap(steps[1].ssh).check_host = None
    /\ Unwrap(sc.cmd).args =
         HostKeyOptions \o << <<"-i">>, <<"/", "keys", "/", "hi">>, <<"root", "@", "h1">>, <<"echo", " ", "hi">> >>

\* The parts of the argument vector of the ssh step of a document of one
\* step, written out from its specification.
TheSsh == Unwrap(steps[1].ssh)
TheArgv == <<Unwrap(sc.cmd).prg>> \o Unwrap(sc.cmd).args
Rendered(t) == render_str(t, ctx, ambient).val
TheTarget ==
    (IF TheSsh.user = None THEN <<"root">> ELSE Rendered(Unwrap(TheSsh.user)))
    \o <<"@">> \o Rendered(TheSsh.host)
HasKey ==
    /\ TheSsh.auth # None
    /\ Unwrap(TheSsh.auth).kind = <<"key">>
    /\ Unwrap(TheSsh.auth).key_path # None

\* KEY=escaped-value for the keys in the given order, a blank after each.
RECURSIVE Exports(_)
Exports(keys) ==
    IF keys = <<>> THEN <<>>
    ELSE <<Head(keys), "=">> \o escape(Rendered(TheSsh.env[Head(keys)])) \o <<" ">>
         \o Exports(Tail(keys))

\* C14: the argument vector of an ssh step is ssh, the host-key options if
\* any, -i and the key path if any, user@host with root for an absent user,
\* and one last argument: the export prefix and then the rendered command,
\* the prefix being empty for an empty env map and else its KEY=value
\* entries with one blank between them and one blank after the last.
SshVectorShape ==
    sc.active =>
        LET n == Len(TheArgv)
            opts == IF TheSsh.check_host \in {None, Some(<<"no">>)} THEN HostKeyOptions ELSE <<>>
            ident == IF HasKey THEN << <<"-i">>, Rendered(Unwrap(Unwrap(TheSsh.auth).key_path)) >>
                     ELSE <<>>
        IN  /\ n = 3 + Len(opts) + Len(ident)
            /\ SubSeq(TheArgv, 1, n - 1) = << <<"ssh">> >> \o opts \o ident \o <<TheTarget>>
            /\ \E keys \in Orders(DOMAIN TheSsh.env) :
                  TheArgv[n] = Exports(keys) \o Rendered(TheSsh.command)
            /\ DOMAIN TheSsh.env = {} => TheArgv[n] = Rendered(TheSsh.command)

\* A vector with every part: options, identity, a rendered user, and two
\* exported entries, B before A.
FullSshVector ==
    /\ sc.active /\ Len(TheArgv) = 9
    /\ DOMAIN TheSsh.env = {"A", "B"} /\ TheSsh.user # None
    /\ SubSeq(TheArgv[9], 1, 2) = <<"B", "=">>
    /\ TheArgv[9][Len(TheArgv[9]) - 3] = " "

\* C15: the vector has -i and the rendered key path exactly if the step has
\* an authentication descriptor of kind "key" with a key path; with a
\* descriptor of kind "password" the vector is the one of the same step
\* without a descriptor.
IdentityFlag ==
    sc.active =>
        LET flags == {j \in 1..Len(TheArgv) : TheArgv[j] = <<"-i">>}
            bare == [steps[1] EXCEPT !.ssh = Some([TheSsh EXCEPT !.auth = None])]
        IN  /\ flags # {} <=> HasKey
            /\ \A j \in flags :
                  /\ j < Len(TheArgv) - 1
                  /\ TheArgv[j + 1] = Rendered(Unwrap(Unwrap(TheSsh.auth).key_path))
            /\ Cardinality(flags) <= 1
            /\ (TheSsh.auth # None /\ Unwrap(TheSsh.auth).kind = <<"password">>)
                 => \E order \in Orders(DOMAIN ambient \cup DOMAIN TheSsh.env) :
                      sc.cmd = run_ssh(bare, Unwrap(bare.ssh), 0, ctx, ambient, dry_run, order).spawn

\* A step with a password descriptor that also has a key path was spawned
\* without an identity.
PasswordWithKeyPathSpawned ==
    /\ sc.active
    /\ TheSsh.auth = Some(PasswordAuth(Some(KeyPath)))
    /\ TheSsh.check_host = Some(<<"yes">>) /\ DOMAIN TheSsh.env = {}
    /\ Len(TheArgv) = 3

\* C16: the export prefix of an ssh step has one entry for each key of the
\* step's ssh env map and no other: none for a key of the process
\* environment, none for a key of the step-level env, and the value of a key
\* that the step level has too is the ssh map's.
ExportEntries(arg) == {j \in 1..(Len(arg) - 1) : arg[j + 1] = "="}

SshEnvOwnMapOnly ==
    sc.active =>
        LET last == TheArgv[Len(TheArgv)]
        IN  /\ {last[j] : j \in ExportEntries(last)} = DOMAIN TheSsh.env
            /\ Cardinality(ExportEntries(last)) = Cardinality(DOMAIN TheSsh.env)
            /\ \A j \in 1..Len(last) : last[j] \notin {"step", "/root", "C"}

\* An ssh step was spawned with B alone in its own map, while the step-level
\* env has A and the process environment HOME and LANG.
SshWithOtherLayers ==
    /\ sc.active
    /\ DOMAIN TheSsh.env = {"B"} /\ DOMAIN steps[1].env = {"A"}
    /\ DOMAIN ambient = {"HOME", "LANG"}
    /\ SubSeq(TheArgv[Len(TheArgv)], 1, 2) = <<"B", "=">>

\* A step has been run, or is being run, by run_step.
HasRun(k) == k <= Len(results) \/ (k - 1 = idx /\ pc # "loop")

\* C17 (as claimed): for a shell step whose guard is not false and whose
\* templates render, the header with the step's index, its name ("shell"
\* when it has none) and the rendered command is printed exactly once, before
\* any spawn, in preview mode too.
ShellHeaderOnce ==
    \A k \in 1..Len(steps) :
        LET step == steps[k]
            spec == Unwrap(step.shell)
            headers == {n \in 1..Len(log) : log[n].kind = "header" /\ log[n].step = k - 1}
        IN  (/\ step.when # Some(FALSE) /\ IsSome(step.shell) /\ HasRun(k)
             /\ render_str(spec.command, ctx, ambient).ok
             /\ \A key \in DOMAIN step.env : render_str(step.env[key], ctx, ambient).ok
             /\ \A key \in DOMAIN spec.env : render_str(spec.env[key], ctx, ambient).ok)
            => /\ Cardinality(headers) = 1
               /\ \A n \in headers :
                     /\ log[n].name = (IF step.name = None THEN <<"shell">> ELSE Unwrap(step.name))
                     /\ log[n].text = render_str(spec.command, ctx, ambient).val
                     /\ \A m \in 1..Len(log) :
                           (log[m].kind = "spawn" /\ log[m].step = k - 1) => n < m

\* C20 (as claimed): run_shell returns a result, Ok or an error, for every
\* ShellSpec, also one whose shell string is empty or blank, and never ends
\* the run by a crash; the program spawned is the first word of the shell
\* string and the rendered command is the last argument.
ShellNeverCrashes ==
    /\ \A k \in 1..Len(results) : results[k].tag \in {"Ok", "Err"}
    /\ exit_code \in {None, Some(0), Some(1)}
    /\ \A k \in 1..Len(steps) :
         (sc.active /\ sc.child = k - 1 /\ IsSome(steps[k].shell))
         => LET spec == Unwrap(steps[k].shell)
                words == split_whitespace(IF spec.shell = None THEN DefaultShell
                                          ELSE Unwrap(spec.shell))
                args == Unwrap(sc.cmd).args
            IN  /\ words # <<>> /\ Unwrap(sc.cmd).prg = words[1]
                /\ args # <<>>
                /\ args[Len(args)] = render_str(spec.command, ctx, ambient).val

\* C10: outside preview mode, a conf step that returns Ok with backup set
\* and a file at the destination leaves the file's old bytes in <dest>.bak
\* and the rendered content in <dest>; with backup not set, or no file at
\* the destination, the step creates no backup file and changes none.
ConfBackup ==
    [][ (/\ pc = "loop" /\ idx < Len(steps) /\ ~dry_run
         /\ steps[idx + 1].when # Some(FALSE)
         /\ steps[idx + 1].shell = None /\ steps[idx + 1].exec = None
         /\ IsSome(steps[idx + 1].conf))
        => LET spec == Unwrap(steps[idx + 1].conf)
               dest == render_str(spec.dest, ctx, ambient).val
               content == render_str(spec.template, ctx, ambient).val
               bak == dest \o <<".bak">>
               had_file == dest \in DOMAIN fs.files
           IN  /\ (results' = Append(results, OkResult) /\ spec.backup /\ had_file)
                  => /\ bak \in DOMAIN fs'.files /\ dest \in DOMAIN fs'.files
                     /\ fs'.files[bak].bytes = fs.files[dest].bytes
                     /\ fs'.files[dest].bytes = content
               /\ (~spec.backup \/ ~had_file)
                  => /\ bak \in DOMAIN fs'.files <=> bak \in DOMAIN fs.files
                     /\ bak \in DOMAIN fs.files => fs'.files[bak] = fs.files[bak] ]_vars

\* A conf step with backup set has replaced an existing file: the backup has
\* the old bytes, the destination the new ones.
BackupMade ==
    /\ results = <<OkResult>> /\ ~dry_run
    /\ Unwrap(steps[1].conf).backup
    /\ \E n \in 1..Len(log) : log[n].kind = "fs_copy"
    /\ fs.files[AppConf \o <<".bak">>].bytes = <<"old">>
    /\ fs.files[AppConf].bytes = <<"key", "=", "hi">>

\* A conf step is the next to run, outside preview mode.
AtConfStep ==
    /\ pc = "loop" /\ idx < Len(steps) /\ ~dry_run
    /\ steps[idx + 1].when # Some(FALSE)
    /\ steps[idx + 1].shell = None /\ steps[idx + 1].exec = None
    /\ IsSome(steps[idx + 1].conf)

TheConf == Unwrap(steps[idx + 1].conf)
TheDest == render_str(TheConf.dest, ctx, ambient).val
EffectsAfterCopy == {"fs_create_dir_all", "fs_write", "fs_set_permissions"}

\* C18: with backup set and something at the destination, a backup copy
\* that fails fails the step, and nothing happens after it: the destination
\* keeps its bytes and its permission bits, no directory is created, and no
\* create_dir_all, write or set_permissions is called.  A copy that cannot
\* succeed (the destination is a directory, or <dest>.bak is one) does fail
\* the step in this way.
CopyFailureAborts ==
    [][ (/\ AtConfStep /\ TheConf.backup
         /\ render_str(TheConf.dest, ctx, ambient).ok
         /\ render_str(TheConf.template, ctx, ambient).ok
         /\ exists(fs, TheDest))
        => LET failed == results' = Append(results, ErrResult("backup copy", 0))
               hopeless == TheDest \notin DOMAIN fs.files \/ (TheDest \o <<".bak">>) \in fs.dirs
           IN  /\ hopeless => failed
               /\ failed
                  => /\ fs'.dirs = fs.dirs
                     /\ TheDest \in DOMAIN fs'.files <=> TheDest \in DOMAIN fs.files
                     /\ TheDest \in DOMAIN fs.files => fs'.files[TheDest] = fs.files[TheDest]
                     /\ \A n \in (Len(log) + 1)..Len(log') : log'[n].kind \notin EffectsAfterCopy
                     /\ pc' = "exited" /\ exit_code' = Some(1) ]_vars

\* The operating system failed the copy of an existing file: the step has
\* failed, and the file, its directory and its mode are what they were.
CopyFailedNothingChanged ==
    /\ results = <<ErrResult("backup copy", 0)>> /\ ~dry_run
    /\ Unwrap(steps[1].conf).backup /\ Unwrap(steps[1].conf).mode = Some(<<"6", "0", "0">>)
    /\ Unwrap(steps[1].conf).dest = <<Lit(AppConf)>>
    /\ fs = WithAppConf

\* The digits of a mode string, after its sign if it has one, and whether
\* they are a number in octal.
ModeDigits(s) == IF s # <<>> /\ Head(s) = "+" THEN Tail(s) ELSE s
IsOctal(d) == d # <<>> /\ \A i \in 1..Len(d) : d[i] \in {"0", "1", "2", "3", "4", "5", "6", "7"}

\* C19 (as claimed): a conf step that succeeds with a mode string leaves the
\* file with permission bits equal to the string's value in octal, and with
\* 0644 if the string is no octal number; without a mode string it applies
\* no permission change.  (Permission bits are below 0o10000, so a number of
\* more than four digits is not equal to them.)
ModeAsWritten ==
    [][ (AtConfStep /\ results' = Append(results, OkResult))
        => /\ TheDest \in DOMAIN fs'.files
           /\ TheConf.mode = None
                => /\ \A n \in (Len(log) + 1)..Len(log') : log'[n].kind # "fs_set_permissions"
                   /\ TheDest \in DOMAIN fs.files
                        => fs'.files[TheDest].mode = fs.files[TheDest].mode
           /\ TheConf.mode # None
                => LET d == strip_zeros(ModeDigits(Unwrap(TheConf.mode)))
                   IN  IF IsOctal(d)
                       THEN Len(d) <= 4 /\ fs'.files[TheDest].mode = oct_value(d, 0)
                       ELSE fs'.files[TheDest].mode = 420 ]_vars

\* C19 (amended): the permission bits are the low twelve bits of the value
\* when the string is an octal number below 2^32, with or without a + before
\* it, and 0644 for every other string; without a mode string no permission
\* change is applied.
ModeLowTwelveBits ==
    [][ (AtConfStep /\ results' = Append(results, OkResult))
        => /\ TheDest \in DOMAIN fs'.files
           /\ TheConf.mode = None
                => /\ \A n \in (Len(log) + 1)..Len(log') : log'[n].kind # "fs_set_permissions"
                   /\ TheDest \in DOMAIN fs.files
                        => fs'.files[TheDest].mode = fs.files[TheDest].mode
           /\ TheConf.mode # None
                => LET d == strip_zeros(ModeDigits(Unwrap(TheConf.mode)))
                       below_2_32 == Len(d) < 11 \/ (Len(d) = 11 /\ Head(d) \in {"1", "2", "3"})
                   IN  IF IsOctal(d) /\ below_2_32
                       THEN fs'.files[TheDest].mode = oct_value(d, 0) % 4096
                       ELSE fs'.files[TheDest].mode = 420 ]_vars

\* A file written with mode "10600": its bits are rw-------.
ModeAboveTwelveBits ==
    /\ results = <<OkResult>> /\ ~dry_run
    /\ Unwrap(steps[1].conf).mode = Some(<<"1", "0", "6", "0", "0">>)
    /\ Unwrap(steps[1].conf).dest = <<Lit(AppConf)>>
    /\ fs.files[AppConf].mode = 384

====
